---- MODULE Spec2Model ----
(***************************************************************************)
(* Audio coordination of the showcase page: the narration player           *)
(* (AudioManager, src/js/quantum-realm.js) and the speech demo player      *)
(* (ElevenLabsDemo, src/js/neural-docs.js), their timers, the media        *)
(* element events they listen to and the scroll handlers of both.          *)
(*                                                                         *)
(* Times of the narration are in milliseconds (AudioManager.currentTime,   *)
(* AudioManager.duration, the argument of seekTo); the narration element's *)
(* currentTime is kept in the same unit (the code divides by 1000 when it  *)
(* writes the element and multiplies by 1000 when it reads it).  The demo  *)
(* element's currentTime is in seconds, the unit checkDemoVisibility       *)
(* compares against.                                                       *)
(***************************************************************************)
EXTENDS Integers, Sequences, FiniteSets, TLC

VARIABLES am, demo, win, gfx, realm, perf, matrix, obs

vars == <<am, demo, win, gfx, realm, perf, matrix, obs>>

\* ---------------------------------------------------------------- bounds
NarrationDurationSec == 10
DemoDurationSec == 6
DocumentHeight == 2
TickSec == 5
MaxTimers == 1
MaxEvents == 1
MaxFaults == 1
MaxTeardowns == 2
MaxSessions == 2
MaxObjects == 2
MaxRealmTimers == 2
HistoryLen == 3
MaxSaves == 12
MaxInFlight == 2

\* ------------------------------------------------------ program constants
ElapsedFloorSec == 5
\* options.volume of the constructor, in percent.
DefaultVolumePct == 70
LowFpsThreshold == 30
HighFpsThreshold == 55
TickerStep == 5
TickerFloor == 20
TickerCeiling == 60
MobileTickerFps == 30
LowEndTickerFps == 20
LowPowerTickerFps == 15
RestoredTickerFps == 30
LowBatteryPct == 20
GoodBatteryPct == 30
HeroParticles == 50
ReducedHeroParticles == 25
ReducedTimeScalePct == 70
SlowedTimeScalePct == 10
DevicePixelRatioPct == 100
McpStartSec == 40
KeptSignatures == 10
MaxTextLength == 500

DurationMs == NarrationDurationSec * 1000
TickMs == TickSec * 1000

Languages == {"english", "hebrew"}
AudioFileKeys == {"english", "hebrew", "demo"}

Max(a, b) == IF a >= b THEN a ELSE b
Min(a, b) == IF a <= b THEN a ELSE b

\* The state the handlers read and write, passed through them as one value.
\* log collects the arguments of the seekTo calls made during one handler,
\* calls the resumeAudioContext() and audioElement.play() calls it makes on
\* the narration, in their order.
World ==
    [am |-> am, demo |-> demo, win |-> win, gfx |-> gfx, realm |-> realm,
     perf |-> perf, matrix |-> matrix,
     log |-> <<>>, calls |-> <<>>]

\* ------------------------------------------------ narration media element
\* HTMLMediaElement.pause() on the narration element: paused becomes true,
\* a 'pause' event is queued for the listeners, pending play() promises are
\* rejected; a rejected promise awaited by togglePlayback runs its catch
\* block, which schedules the 100 ms retry.
NarrElementPause(w) ==
    IF w.am.paused THEN w
    ELSE [w EXCEPT !.am.paused = TRUE,
                   !.am.events = IF w.am.listeners THEN Append(@, "pause") ELSE @,
                   !.am.waiters = {},
                   !.win.retryTimers = IF "toggle" \in w.am.waiters THEN @ + 1 ELSE @]

\* Of the callers that await play(), only togglePlayback does something when
\* the promise is rejected; the promises of the others are not tracked.
Waiting(waiters, who) == IF who = "toggle" THEN waiters \cup {who} ELSE waiters

\* HTMLMediaElement.play() on the narration element, awaited by `who`.
\* allowed = FALSE is the platform refusing (NotAllowedError): the element
\* is left as it is and the caller's catch block runs.  An element whose
\* file could not be loaded refuses as well (NotSupportedError).
NarrElementPlay(w, who, allowed) ==
    IF ~allowed \/ w.am.broken
    THEN [w EXCEPT !.calls = Append(@, "play"),
                   !.win.retryTimers = IF who = "toggle" THEN @ + 1 ELSE @]
    ELSE IF w.am.paused
         THEN [w EXCEPT !.calls = Append(@, "play"),
                        !.am.paused = FALSE,
                        !.am.pos = IF @ >= w.am.duration THEN 0 ELSE @,
                        !.am.events = IF w.am.listeners THEN Append(@, "play") ELSE @,
                        !.am.waiters = Waiting(@, who)]
         ELSE [w EXCEPT !.calls = Append(@, "play"),
                        !.am.waiters = Waiting(@, who)]

\* ----------------------------------------------------- demo media element
DemoElementPause(w) ==
    IF w.demo.paused THEN w
    ELSE [w EXCEPT !.demo.paused = TRUE,
                   !.demo.events = Append(@, "pause")]

DemoElementPlay(w, allowed) ==
    IF ~allowed \/ ~w.demo.paused THEN w
    ELSE [w EXCEPT !.demo.paused = FALSE,
                   !.demo.pos = IF @ >= DemoDurationSec THEN 0 ELSE @,
                   !.demo.events = Append(@, "play")]

\* ------------------------------------------------------------ ElevenLabsDemo
DemoIsPlaying(w) == w.demo.hasAudio /\ ~w.demo.paused

DemoStop(w) ==
    IF w.demo.hasAudio
    THEN [DemoElementPause(w) EXCEPT !.demo.pos = 0]
    ELSE w

\* --------------------------------------------------------------- AudioManager
\* resumeAudioContext(): the awaited resume of a suspended context is taken
\* as one step with the handler that awaits it.
ResumeAudioContext(w) ==
    [w EXCEPT !.calls = Append(@, "resume"),
              !.am.ctx = IF @ = "suspended" THEN "running" ELSE @]

\* What getByteFrequencyData gives: the spectrum of what the narration
\* element sounds at its position, or silence.
AnalyserFrame(w) ==
    IF w.am.paused THEN <<"idle">> ELSE <<"data", w.am.pos>>

\* updateVisualizations: one array is read from the analyser and handed to
\* the waveform and the spectrum drawing, which only read it.
UpdateVisualizations(w) ==
    [w EXCEPT !.gfx.waveform = AnalyserFrame(w),
              !.gfx.spectrum = AnalyserFrame(w)]

\* The 'timeupdate' listener of setupEventListeners; only the element of
\* init() has it.
OnTimeUpdate(w) ==
    IF w.am.listeners
    THEN UpdateVisualizations([w EXCEPT !.am.currentTime = w.am.pos])
    ELSE w

SeekToNoClamp(w, timeInMs) ==
    OnTimeUpdate([w EXCEPT !.am.pos = timeInMs,
                           !.log = Append(@, timeInMs)])

\* seekTo(timeInMs): the element's currentTime is written, which makes the
\* element fire 'timeupdate'.
SeekTo(w, timeInMs) ==
    OnTimeUpdate([w EXCEPT !.am.pos = Max(0, Min(timeInMs, w.am.duration)),
                           !.log = Append(@, timeInMs)])

AmPauseResetting(w) ==
    IF w.am.isPlaying THEN [NarrElementPause(w) EXCEPT !.am.pos = 0] ELSE w

AmPause(w) ==
    IF w.am.isPlaying THEN NarrElementPause(w) ELSE w

AmStop(w) ==
    OnTimeUpdate([NarrElementPause(w) EXCEPT !.am.pos = 0])

TogglePlayback(w, allowed) ==
    IF w.am.isPlaying
    THEN NarrElementPause(w)
    ELSE LET w1 == ResumeAudioContext(w)
             w2 == IF w1.win.demoAudioManager /\ DemoIsPlaying(w1) THEN DemoStop(w1)
                   ELSE IF w1.win.elevenLabsDemo /\ DemoIsPlaying(w1) THEN DemoStop(w1)
                   ELSE w1
         IN NarrElementPlay(w2, "toggle", allowed)

AmPlay(w, allowed) == TogglePlayback(w, allowed)

RetryAgainOnRejection(w, allowed) ==
    NarrElementPlay(ResumeAudioContext(w), "toggle", allowed)

\* The callback of the timeout set in togglePlayback's catch block; its own
\* catch block only logs.
RetryCallback(w, allowed) ==
    NarrElementPlay(ResumeAudioContext(w), "retry", allowed)

\* Volumes are in percent: 100 is the gain 1.
SetVolumeNoClamp(w, volume) ==
    [w EXCEPT !.am.volume = volume, !.am.gain = volume]

SetVolume(w, volume) ==
    LET v == Max(0, Min(100, volume))
    IN [w EXCEPT !.am.volume = v, !.am.gain = v]

\* toggleMute.  am.muteIcon says that #volume-btn shows the muted icon, the
\* only record the page keeps of having been muted.
ToggleMute(w) ==
    IF w.am.gain > 0
    THEN [w EXCEPT !.am.gain = 0, !.am.muteIcon = TRUE]
    ELSE [w EXCEPT !.am.gain = w.am.volume, !.am.muteIcon = FALSE]

\* switchLanguage up to its await: loadAudio() replaces audioElement by a
\* new Audio(...) that has no listeners and is not playing.
SwitchLanguageStart(w, language) ==
    IF language \notin AudioFileKeys THEN w
    ELSE LET wasPlaying == w.am.isPlaying
             w1 == IF wasPlaying THEN NarrElementPause(w) ELSE w
         IN [w1 EXCEPT !.am.language = language,
                       !.am.broken = FALSE,
                       !.am.loading = <<[wasPlaying |-> wasPlaying,
                                         currentTime |-> w.am.currentTime]>>,
                       !.am.orphanPlaying = @ \/ (w1.am.listeners /\ ~w1.am.paused),
                       !.am.paused = TRUE,
                       !.am.pos = 0,
                       !.am.listeners = FALSE,
                       !.am.waiters = {}]

\* loadAudio after 'loadedmetadata', then the rest of switchLanguage.
SwitchLanguageLoaded(w, allowed) ==
    LET job == Head(w.am.loading)
        w1 == [w EXCEPT !.am.loading = <<>>, !.am.duration = DurationMs]
    IN IF job.wasPlaying
       THEN NarrElementPlay(SeekTo(w1, job.currentTime), "switch", allowed)
       ELSE w1

\* loadAudio after 'error': its catch block logs and returns, duration stays
\* what it was.  The rest of switchLanguage then calls seekTo when the
\* narration was playing, which throws on the element without metadata
\* (its duration is NaN) before play() is reached.
SwitchLanguageFailed(w) ==
    [w EXCEPT !.am.loading = <<>>, !.am.broken = TRUE]

\* The scroll listener of setupScrollSync.
ScrollSyncNoEnabledCheck(w, scrollTop) ==
    IF w.am.isPlaying \/ w.am.isScrolling THEN w
    ELSE LET w1 == [w EXCEPT !.am.isScrolling = TRUE,
                             !.win.debounceTimers = @ + 1]
         IN SeekTo(w1, (scrollTop * w.am.duration) \div DocumentHeight)

ScrollSyncNoDebounce(w, scrollTop) ==
    IF w.am.isPlaying \/ ~w.am.scrollSyncEnabled THEN w
    ELSE LET w1 == [w EXCEPT !.am.isScrolling = TRUE,
                             !.win.debounceTimers = Min(@ + 1, 1)]
         IN SeekTo(w1, (scrollTop * w.am.duration) \div DocumentHeight)

ScrollSyncPercentAsTime(w, scrollTop) ==
    IF w.am.isPlaying \/ w.am.isScrolling \/ ~w.am.scrollSyncEnabled THEN w
    ELSE LET w1 == [w EXCEPT !.am.isScrolling = TRUE,
                             !.win.debounceTimers = @ + 1]
         IN SeekTo(w1, scrollTop \div DocumentHeight)

ScrollSyncListener(w, scrollTop) ==
    IF w.am.isPlaying \/ w.am.isScrolling \/ ~w.am.scrollSyncEnabled THEN w
    ELSE LET w1 == [w EXCEPT !.am.isScrolling = TRUE,
                             !.win.debounceTimers = @ + 1]
         IN SeekTo(w1, (scrollTop * w.am.duration) \div DocumentHeight)

\* ------------------------------------------------- ElevenLabsDemo handlers
\* displayResult up to its await: an object URL is created for the clip and
\* becomes the source of the element, currentAudio is replaced without a look
\* at the URL it held, and the listeners are set anew.  demo.revokes counts
\* the revokeObjectURL calls on the URL of currentAudio.
DisplayResultConfigure(w) ==
    [w EXCEPT !.demo.hasAudio = TRUE,
              !.demo.paused = TRUE,
              !.demo.pos = 0,
              !.demo.listeners = TRUE,
              !.demo.revokes = 0]

\* ElevenLabsDemo.destroy: currentAudio is kept, so its URL is revoked on
\* every call.
DemoDestroy(w) ==
    [w EXCEPT !.demo.revokes = IF w.demo.hasAudio THEN @ + 1 ELSE @,
              !.demo.listeners = FALSE,
              !.win.demoAudioManager = FALSE]

DemoTogglePlaybackBody(w) ==
    IF ~w.demo.hasAudio THEN w
    ELSE IF w.demo.paused
         THEN LET w1 == ResumeAudioContext(w)
                  w2 == IF w1.am.isPlaying THEN AmPause(w1) ELSE w1
              IN DemoElementPlay(w2, TRUE)
         ELSE DemoElementPause(w)

OnDemoAudioPlay(w) ==
    LET w1 == ResumeAudioContext(w)
        w2 == IF w1.am.isPlaying THEN AmPause(w1) ELSE w1
    IN [w2 EXCEPT !.win.demoAudioManager = TRUE,
                  !.demo.shouldRestoreMainAudio = FALSE]

OnDemoAudioEnded(w) ==
    [w EXCEPT !.demo.shouldRestoreMainAudio = TRUE,
              !.win.restoreTimers = @ + 1]

CheckFloorInclusive(w, isVisible) ==
    IF DemoIsPlaying(w) /\ ~isVisible
    THEN IF w.demo.pos >= ElapsedFloorSec
         THEN [DemoStop(w) EXCEPT !.demo.shouldRestoreMainAudio = TRUE,
                                  !.win.restoreTimers = @ + 1]
         ELSE w
    ELSE IF isVisible /\ DemoIsPlaying(w)
         THEN [w EXCEPT !.demo.shouldRestoreMainAudio = FALSE]
         ELSE w

CheckDemoVisibility(w, isVisible) ==
    IF DemoIsPlaying(w) /\ ~isVisible
    THEN IF w.demo.pos > ElapsedFloorSec
         THEN [DemoStop(w) EXCEPT !.demo.shouldRestoreMainAudio = TRUE,
                                  !.win.restoreTimers = @ + 1]
         ELSE w
    ELSE IF isVisible /\ DemoIsPlaying(w)
         THEN [w EXCEPT !.demo.shouldRestoreMainAudio = FALSE]
         ELSE w

\* --------------------------------------------------------- ThreeSceneManager
\* The scenes in the order startAnimation animates them, which is also the
\* order of the keys of this.renderers.
SceneOrder ==
    <<"neuralNetwork", "quantumField", "audioVisualizer", "neuralUnderstanding">>

Scenes == {SceneOrder[i] : i \in 1..Len(SceneOrder)}

UpdatesOf(order) == [i \in 1..Len(order) |-> <<"update", order[i]>>]
RendersOf(order) == [i \in 1..Len(order) |-> <<"render", order[i]>>]

\* The calls of one run of animate(): the four animate* methods, then
\* renderScenes, which renders scene after scene.
TickSteps(order) == UpdatesOf(order) \o RendersOf(order)

\* The steps that run before one of them throws: animate() has no try
\* block, an exception ends it.
Completed(steps, faulty) ==
    LET bad == {i \in 1..Len(steps) : steps[i] \in faulty}
        stop == IF bad = {} THEN Len(steps) + 1
                ELSE CHOOSE i \in bad : \A j \in bad : i <= j
    IN SubSeq(steps, 1, stop - 1)

\* One run of animate(): the next frame is requested first, so the loop goes
\* on whatever happens after.
Animate(w) ==
    [w EXCEPT !.gfx.running = TRUE,
              !.gfx.log = Completed(TickSteps(SceneOrder), w.gfx.faulty)]

\* ThreeSceneManager.destroy without the cancelAnimationFrame calls.
DestroyDisposeOnly(w) ==
    [w EXCEPT !.gfx.disposals = @ + 1,
              !.gfx.teardown = <<"renderers", "objects">>]

\* ThreeSceneManager.destroy: the pending frame is cancelled, then every
\* renderer is disposed, then the geometry and material of every object.
DestroyScenes(w) ==
    [w EXCEPT !.gfx.running = FALSE,
              !.gfx.disposals = @ + 1,
              !.gfx.teardown = <<"cancel", "renderers", "objects">>]

\* -------------------------------------------------------------- QuantumRealm
\* realm.scene is 0 for this.scene = null and the number of the open session
\* otherwise; fields and particles count the objects of this.fields and the
\* batches of this.particles; a timer is <<callback, session that set it>>.

\* setupThreeJS, with window.THREE present.
SetupThreeJS(w) ==
    [w EXCEPT !.realm.sessions = @ + 1,
              !.realm.scene = w.realm.sessions + 1,
              !.realm.renderer = TRUE]

\* spawnParticles: this.scene.add throws on the first particle when the
\* scene is null.
SpawnParticles(w) ==
    IF w.realm.scene = 0 THEN [w EXCEPT !.realm.callback = "threw"]
    ELSE [w EXCEPT !.realm.particles = @ + 1]

\* createQuantumField: this.scene.add throws when the scene is null, before
\* the field is kept and the 500 ms timeout is set.
CreateQuantumField(w) ==
    IF w.realm.scene = 0 THEN [w EXCEPT !.realm.callback = "threw"]
    ELSE [w EXCEPT !.realm.fields = @ + 1,
                   !.realm.timers = Append(@, <<"spawnParticles", w.realm.scene>>)]

\* animate() of QuantumRealm.  realm.pending counts the callbacks handed to
\* requestAnimationFrame that have neither run nor been cancelled.
RealmAnimate(w) ==
    IF ~w.realm.isActive THEN [w EXCEPT !.realm.loop = FALSE, !.realm.frame = <<>>]
    ELSE [w EXCEPT !.realm.loop = TRUE,
                   !.realm.pending = @ + 1,
                   !.realm.frame = <<"update">> \o
                       (IF w.realm.renderer /\ w.realm.scene # 0
                        THEN <<"render">> ELSE <<>>)]

\* An openRealm without its guard.
OpenRealmUnguarded(w) ==
    RealmAnimate(CreateQuantumField(SetupThreeJS(
        [w EXCEPT !.realm.isActive = TRUE])))

\* openRealm; the await of setupThreeJS, which awaits nothing itself, ends in
\* the same task.
OpenRealmBody(w) ==
    IF w.realm.isActive THEN w
    ELSE RealmAnimate(CreateQuantumField(SetupThreeJS(
             [w EXCEPT !.realm.isActive = TRUE])))

\* cleanup: the objects of the three lists are removed and disposed, the
\* lists emptied, the renderer disposed and dropped, the scene dropped.
Cleanup(w) ==
    [w EXCEPT !.realm.teardown =
                  @ \o (IF w.realm.fields + w.realm.particles > 0
                        THEN <<"objects">> ELSE <<>>)
                    \o (IF w.realm.renderer THEN <<"renderer">> ELSE <<>>),
              !.realm.fields = 0,
              !.realm.particles = 0,
              !.realm.renderer = FALSE,
              !.realm.scene = 0]

CloseRealmBody(w) ==
    IF ~w.realm.isActive THEN [w EXCEPT !.realm.teardown = <<>>]
    ELSE Cleanup([w EXCEPT !.realm.isActive = FALSE,
                           !.realm.loop = FALSE,
                           !.realm.pending = IF @ > 0 THEN @ - 1 ELSE 0,
                           !.realm.teardown =
                               IF w.realm.loop THEN <<"cancel">> ELSE <<>>])

\* resetField.
ResetField(w) ==
    [w EXCEPT !.realm.fields = 0,
              !.realm.particles = 0,
              !.realm.timers = Append(@, <<"createQuantumField", w.realm.scene>>)]

\* A saveSignature that drops the newest entry of a full list.
SaveSignatureDropNewest(w) ==
    LET pushed == Append(w.realm.savedSignatures, w.realm.saves + 1)
    IN [w EXCEPT !.realm.saves = @ + 1,
                 !.realm.savedSignatures =
                     IF Len(pushed) > KeptSignatures
                     THEN SubSeq(pushed, 1, Len(pushed) - 1) ELSE pushed]

\* saveSignature: the list of localStorage is read, the new entry pushed,
\* the first one shifted out when there are more than ten, and the list
\* written back.  An entry is modelled by its serial number, which stands
\* for its timestamp; realm.saves counts the calls.
SaveSignature(w) ==
    LET pushed == Append(w.realm.savedSignatures, w.realm.saves + 1)
    IN [w EXCEPT !.realm.saves = @ + 1,
                 !.realm.savedSignatures =
                     IF Len(pushed) > KeptSignatures THEN Tail(pushed) ELSE pushed]

RemoveAt(seq, i) == SubSeq(seq, 1, i - 1) \o SubSeq(seq, i + 1, Len(seq))

\* ------------------------------------------------------ PerformanceOptimizer
\* perf.tickerFps is the rate last given to gsap.ticker.fps, which the code
\* also reads back with gsap.ticker.fps(); without a cap the ticker runs at
\* the display rate, which the code takes to be 60.  pixelRatio is the pixel
\* ratio of the renderers in percent, the device's being DevicePixelRatioPct.
\* perf.hist keeps the last HistoryLen FPS samples with the change of the
\* ticker rate each caused, perf.startFps the ticker rate init() left.

\* init(): throttleGSAPAnimations and applyMobileOptimizations on a mobile
\* device; optimizeAnimationsForMobile has the last word on the ticker.
OptimizerInitBody(w, device) ==
    LET fps == IF device = "desktop" THEN TickerCeiling
               ELSE IF device = "lowEnd" THEN LowEndTickerFps
               ELSE MobileTickerFps
    IN [w EXCEPT !.perf.device = device,
                 !.perf.tickerFps = fps,
                 !.perf.startFps = fps]

ReduceBrowserLoad(w) ==
    [w EXCEPT !.perf.pixelRatio = Min(DevicePixelRatioPct \div 2, 100),
              !.perf.tickerFps = Max(@ - TickerStep, TickerFloor)]

IncreaseBrowserLoad(w) ==
    [w EXCEPT !.perf.pixelRatio = Min(DevicePixelRatioPct, 200),
              !.perf.tickerFps = Min(@ + TickerStep, TickerCeiling)]

\* The adjustment measureFPS makes once a second has passed.
AdjustQuality(w, fps) ==
    IF fps < LowFpsThreshold THEN ReduceBrowserLoad(w)
    ELSE IF fps > HighFpsThreshold THEN IncreaseBrowserLoad(w)
    ELSE w

Last(seq, n) == SubSeq(seq, Max(1, Len(seq) - n + 1), Len(seq))

\* measureFPS of startFPSMonitoring at the end of a second with fps frames.
MeasureFPS(w, fps) ==
    LET w1 == AdjustQuality(w, fps)
    IN [w1 EXCEPT !.perf.hist =
            Last(Append(@, <<fps, w1.perf.tickerFps - w.perf.tickerFps>>),
                 HistoryLen)]

\* performanceMonitor.update of main.js at the end of a second.
PerformanceMonitorUpdate(w, fps) ==
    [w EXCEPT !.perf.monitorFps = fps,
              !.perf.reducedMotion = (fps < LowFpsThreshold)]

\* The listener of the (prefers-reduced-motion: reduce) media query, with
\* updateAnimationsForMotionPreference.
MotionPreferenceListener(w, matches) ==
    [w EXCEPT !.perf.isReducedMotion = matches,
              !.perf.timeScale = IF matches THEN SlowedTimeScalePct ELSE 100,
              !.perf.reducedMotion = matches]

\* optimizePerformance of main.js.
OptimizePerformance(w) ==
    LET slow == w.perf.monitorFps < LowFpsThreshold
    IN [w EXCEPT !.perf.particles = Min(@, ReducedHeroParticles),
                 !.perf.performanceMode = @ \/ slow,
                 !.perf.timeScale = IF slow THEN ReducedTimeScalePct ELSE @]

EnableLowPowerMode(w) ==
    [w EXCEPT !.perf.tickerFps = LowPowerTickerFps, !.perf.lowPower = TRUE]

DisableLowPowerMode(w) ==
    [w EXCEPT !.perf.tickerFps = RestoredTickerFps, !.perf.lowPower = FALSE]

\* A checkBattery with one threshold in place of the band.
CheckBatteryNoBand(w, level, charging) ==
    IF level <= GoodBatteryPct /\ ~charging THEN EnableLowPowerMode(w)
    ELSE DisableLowPowerMode(w)

\* checkBattery of monitorBattery.
CheckBattery(w, level, charging) ==
    IF level < LowBatteryPct /\ ~charging THEN EnableLowPowerMode(w)
    ELSE IF level > GoodBatteryPct \/ charging THEN DisableLowPowerMode(w)
    ELSE w

\* -------------------------------------------------------------- MatrixEffect
\* matrix.timers holds the pending timeouts ("scroll" 5 s and "stop" 7 s of
\* startEffect, "enable" 3 s of syncAudioToMCP), matrix.scrolling says that
\* the 2 s scroll tween is running, matrix.threw that the last
\* syncAudioToMCP ended in an exception.

\* The narration element has no metadata: its duration is NaN and writing
\* currentTime throws.
NoMetadata(w) == w.am.broken \/ w.am.loading # <<>>

StartEffectBody(w) ==
    IF w.matrix.isActive THEN w
    ELSE [w EXCEPT !.matrix.isActive = TRUE,
                   !.matrix.timers = @ \cup {"scroll", "stop"}]

\* scrollToNeuralNetwork with GSAP present.
ScrollToNeuralNetwork(w) ==
    [w EXCEPT !.am.scrollSyncEnabled = FALSE,
              !.matrix.scrolling = TRUE]

\* syncAudioToMCP: seekTo is given the start time of the 'mcp' section as the
\* sections list has it, in seconds.
SyncAudioToMCP(w, allowed) ==
    IF NoMetadata(w) THEN [w EXCEPT !.matrix.threw = TRUE]
    ELSE LET w1 == SeekTo(w, McpStartSec)
             w2 == IF ~w1.am.isPlaying THEN AmPlay(w1, allowed) ELSE w1
         IN [w2 EXCEPT !.matrix.timers = @ \cup {"enable"},
                       !.matrix.threw = FALSE]

StopEffect(w) ==
    IF ~w.matrix.isActive THEN w ELSE [w EXCEPT !.matrix.isActive = FALSE]

\* ------------------------------------------------------------------ state
Bounded(w) ==
    /\ Len(w.am.events) <= MaxEvents
    /\ Len(w.demo.events) <= MaxEvents
    /\ w.win.retryTimers <= MaxTimers
    /\ w.win.restoreTimers <= MaxTimers
    /\ w.gfx.disposals <= MaxTeardowns
    /\ w.demo.revokes <= MaxTeardowns
    /\ w.demo.inFlight <= MaxInFlight
    /\ w.realm.sessions <= MaxSessions
    /\ w.realm.saves <= MaxSaves
    /\ w.realm.pending <= MaxSessions
    /\ w.realm.fields <= MaxObjects
    /\ w.realm.particles <= MaxObjects
    /\ Len(w.realm.timers) <= MaxRealmTimers

\* obs is the observer of the run, not program state: lastReq is the source
\* whose playback was requested last by the user or the page ("none" once
\* that request is over), seeks the seekTo arguments of the last step, kind/n
\* a note the last step left about its input, calls what a firing retry
\* timer called, and before what the narration was when the language button
\* started the load that is still pending.
CommitFlag(w, lastReq, kind, n, flag) ==
    /\ Bounded(w)
    /\ am' = w.am
    /\ demo' = w.demo
    /\ win' = w.win
    /\ gfx' = w.gfx
    /\ realm' = w.realm
    /\ perf' = w.perf
    /\ matrix' = w.matrix
    /\ obs' = [lastReq |-> lastReq, seeks |-> w.log, kind |-> kind, n |-> n,
               flag |-> flag,
               calls |-> IF kind = "retry" THEN w.calls ELSE <<>>,
               before |-> IF kind = "switch"
                          THEN <<[language |-> am.language, paused |-> am.paused,
                                  pos |-> am.pos, listeners |-> am.listeners]>>
                          ELSE IF w.am.loading = <<>> THEN <<>> ELSE obs.before]

CommitNote(w, lastReq, kind, n) == CommitFlag(w, lastReq, kind, n, FALSE)

Commit(w, lastReq) == CommitNote(w, lastReq, "none", 0)

\* The state after the constructors have run and the first narration file has
\* loaded; the frame loop of ThreeSceneManager has been started.  Nothing in
\* the sources dispatches 'audioLevelUpdate', the one way a frame reaches the
\* audio scene, so gfx.audioScene is written by no handler.  The page is taken to publish the two objects as
\* window.audioManager and window.elevenLabsDemo, the names the handlers look
\* each other up by; window.demoAudioManager is set by onDemoAudioPlay.
Init ==
    /\ am = [paused |-> TRUE, pos |-> 0, listeners |-> TRUE, events |-> <<>>,
             waiters |-> {}, isPlaying |-> FALSE, currentTime |-> 0,
             duration |-> DurationMs,
             scrollSyncEnabled |-> TRUE, isScrolling |-> FALSE,
             ctx |-> "suspended", loading |-> <<>>, orphanPlaying |-> FALSE,
             volume |-> DefaultVolumePct, gain |-> DefaultVolumePct,
             muteIcon |-> FALSE,
             language |-> "english", broken |-> FALSE]
    /\ demo = [hasAudio |-> FALSE, paused |-> TRUE, pos |-> 0, events |-> <<>>,
               shouldRestoreMainAudio |-> FALSE, ticking |-> FALSE,
               isGenerating |-> FALSE, isDemoReady |-> FALSE, load |-> "none",
               listeners |-> FALSE, revokes |-> 0, inFlight |-> 0,
               buttonDisabled |-> FALSE]
    /\ win = [demoAudioManager |-> FALSE, elevenLabsDemo |-> TRUE,
              retryTimers |-> 0, restoreTimers |-> 0, debounceTimers |-> 0,
              loadTimers |-> 0]
    /\ gfx = [scenes |-> Scenes, running |-> TRUE, faulty |-> {}, log |-> <<>>,
              disposals |-> 0, teardown |-> <<>>,
              waveform |-> <<"none">>, spectrum |-> <<"none">>,
              audioScene |-> <<"none">>]
    /\ realm = [isActive |-> FALSE, scene |-> 0, renderer |-> FALSE,
                loop |-> FALSE, sessions |-> 0, fields |-> 0, particles |-> 0,
                timers |-> <<>>, teardown |-> <<>>, frame |-> <<>>,
                callback |-> "none", saves |-> 0, savedSignatures |-> <<>>,
                pending |-> 0]
    /\ perf = [device |-> "none", tickerFps |-> TickerCeiling,
               startFps |-> TickerCeiling, pixelRatio |-> 100,
               lowPower |-> FALSE, monitorFps |-> TickerCeiling,
               reducedMotion |-> FALSE, particles |-> HeroParticles,
               performanceMode |-> FALSE, timeScale |-> 100, hist |-> <<>>,
               isReducedMotion |-> FALSE]
    /\ matrix = [isActive |-> FALSE, timers |-> {}, scrolling |-> FALSE,
                 threw |-> FALSE]
    /\ obs = [lastReq |-> "none", seeks |-> <<>>, kind |-> "none", n |-> 0,
              flag |-> FALSE,
              calls |-> <<>>, before |-> <<>>]

\* ----------------------------------------------------------------- actions
\* A click on #play-pause-btn.
ClickPlayPause ==
    /\ Commit(TogglePlayback(World, TRUE),
              IF am.isPlaying THEN "none" ELSE "narration")

\* audioManager.play() called by page code outside a click handler.
CallPlay ==
    /\ \E allowed \in BOOLEAN :
           Commit(AmPlay(World, allowed),
                  IF am.isPlaying THEN "none" ELSE "narration")

CallPause ==
    /\ Commit(AmPause(World), "none")

CallStop ==
    /\ Commit(AmStop(World), "none")

\* The element of init() delivers its next queued 'play' or 'pause' event.
NarrEventDispatch ==
    /\ am.events # <<>>
    /\ LET w == [World EXCEPT !.am.events = Tail(@)]
       IN IF Head(am.events) = "play"
          THEN Commit(ResumeAudioContext([w EXCEPT !.am.isPlaying = TRUE]),
                      obs.lastReq)
          ELSE Commit([w EXCEPT !.am.isPlaying = FALSE], obs.lastReq)

\* Playback has started: the promises of play() resolve.
NarrPlayResolved ==
    /\ am.waiters # {}
    /\ ~am.paused
    /\ Commit([World EXCEPT !.am.waiters = {}], obs.lastReq)

\* The narration reaches its end: the element pauses itself and fires
\* 'pause' and 'ended' in one task.
NarrEnded ==
    /\ ~am.paused
    /\ am.pos >= am.duration
    /\ am.events = <<>>
    /\ LET w1 == [World EXCEPT !.am.paused = TRUE,
                               !.am.waiters = {},
                               !.win.retryTimers =
                                   IF "toggle" \in am.waiters THEN @ + 1 ELSE @]
       IN Commit(IF am.listeners
                 THEN [w1 EXCEPT !.am.isPlaying = FALSE, !.am.currentTime = 0]
                 ELSE w1,
                 "none")

\* An orphaned element of init() that was left playing reaches its end.
OrphanEnded ==
    /\ am.orphanPlaying
    /\ Commit([World EXCEPT !.am.orphanPlaying = FALSE,
                            !.am.isPlaying = FALSE,
                            !.am.currentTime = 0],
              obs.lastReq)

\* The 100 ms timeout of togglePlayback's catch block.
RetryTimerFire ==
    /\ win.retryTimers > 0
    /\ \E allowed \in BOOLEAN :
          LET w1 == [World EXCEPT !.win.retryTimers = @ - 1]
          IN CommitNote(RetryCallback(w1, allowed), obs.lastReq,
                        "retry", 0)

\* A call of switchLanguage for the language that is current, which loads
\* its file again, or for one that has no file.  Which file is loaded changes
\* nothing the players do; the change of language is ClickLanguage.
SwitchLanguage ==
    /\ am.loading = <<>>
    /\ \E language \in {am.language, "klingon"} :
          Commit(SwitchLanguageStart(World, language),
                 IF language \in AudioFileKeys THEN "none" ELSE obs.lastReq)

\* A click on #language-btn: switchLanguage for the other language.
ClickLanguage ==
    /\ am.loading = <<>>
    /\ \E language \in Languages \ {am.language} :
          CommitNote(SwitchLanguageStart(World, language), "none", "switch", 0)

\* The new narration element fires 'error' instead of 'loadedmetadata'.
LoadError ==
    /\ am.loading # <<>>
    /\ CommitNote(SwitchLanguageFailed(World), obs.lastReq, "loadfail", 0)

\* The new narration element fires 'loadedmetadata'.  The note's flag says
\* that the play() of switchLanguage was rejected.
LoadedMetadata ==
    /\ am.loading # <<>>
    /\ \E allowed \in BOOLEAN :
          CommitFlag(SwitchLanguageLoaded(World, allowed), obs.lastReq,
                     "none", 0, Head(am.loading).wasPlaying /\ ~allowed)

\* displayResult: a generated clip is put into #generated-audio; setting
\* src resets the element.  The wait for 'canplay' that follows changes
\* nothing the players read; NextLoad takes it step by step.
DisplayResult ==
    /\ Commit(DisplayResultConfigure(World), "none")

\* The value of #demo-text-input: blanks around chars other characters.
TextInputs ==
    {[blanks |-> b, chars |-> c] :
        b \in {0, 2}, c \in {0, 1, MaxTextLength, MaxTextLength + 1}}

\* The length of value.trim().
TrimmedLength(text) == text.chars

\* A generateSpeech that does not look at isGenerating.
GenerateSpeechUnguarded(w, text) ==
    IF TrimmedLength(text) = 0 \/ TrimmedLength(text) > MaxTextLength THEN w
    ELSE [w EXCEPT !.demo.isGenerating = TRUE,
                   !.demo.inFlight = @ + 1,
                   !.demo.buttonDisabled = TRUE]

\* generateSpeech up to its first await, with showSynthesisProgress.
\* demo.inFlight counts the calls that are between that point and their
\* finally block.
GenerateSpeechStart(w, text) ==
    IF w.demo.isGenerating THEN w
    ELSE IF TrimmedLength(text) = 0 \/ TrimmedLength(text) > MaxTextLength THEN w
    ELSE [w EXCEPT !.demo.isGenerating = TRUE,
                   !.demo.inFlight = @ + 1,
                   !.demo.buttonDisabled = TRUE]

\* The finally block of generateSpeech, with hideSynthesisProgress.
GenerateSpeechFinally(w) ==
    [w EXCEPT !.demo.isGenerating = FALSE,
              !.demo.inFlight = IF @ > 0 THEN @ - 1 ELSE 0,
              !.demo.buttonDisabled = FALSE]

\* A click on #generate-speech-btn, or Ctrl+Enter in the text field, which
\* works while the button is disabled.
ClickGenerate ==
    /\ \E text \in TextInputs :
          CommitNote(GenerateSpeechStart(World, text), obs.lastReq,
                     "generate", TrimmedLength(text))

\* simulateAudioGeneration throws: fetch has failed and the placeholder
\* clip cannot be built.  The catch block of generateSpeech shows a toast.
GenerationFailed ==
    /\ demo.isGenerating
    /\ demo.load # "waiting"
    /\ Commit(GenerateSpeechFinally(World), obs.lastReq)

\* The clip has been fetched: displayResult up to its await, with the 5 s
\* timeout set and 'loadstart' delivered.
GenerationDone ==
    /\ demo.isGenerating
    /\ demo.load # "waiting"
    /\ Commit([DisplayResultConfigure(World) EXCEPT
                   !.demo.load = "waiting",
                   !.demo.isDemoReady = FALSE,
                   !.win.loadTimers = @ + 1],
              "none")

\* 'canplay' of the demo element: the timeout is cleared, the wait resolves
\* and generateSpeech runs to its end.
DemoCanPlay ==
    /\ demo.load = "waiting"
    /\ Commit([GenerateSpeechFinally(World) EXCEPT
                   !.demo.load = "ready",
                   !.demo.isDemoReady = demo.listeners \/ @,
                   !.win.loadTimers = @ - 1],
              obs.lastReq)

\* 'error' of the demo element.
DemoLoadError ==
    /\ demo.load = "waiting"
    /\ Commit([GenerateSpeechFinally(World) EXCEPT
                   !.demo.load = "failed",
                   !.demo.isDemoReady = ~demo.listeners /\ @,
                   !.win.loadTimers = @ - 1],
              obs.lastReq)

\* The 5 s timeout of displayResult.
DemoLoadTimeout ==
    /\ win.loadTimers > 0
    /\ Commit([GenerateSpeechFinally(World) EXCEPT
                   !.demo.load = "timeout",
                   !.win.loadTimers = @ - 1],
              obs.lastReq)

\* A click on #demo-play-pause or the 'p' key.
DemoTogglePlayback ==
    /\ LET w == DemoTogglePlaybackBody(World)
       IN CommitNote(w, IF ~demo.hasAudio THEN obs.lastReq
                        ELSE IF demo.paused THEN "demo" ELSE "none",
                     IF ~am.paused /\ w.am.paused THEN "handover" ELSE "none", 0)

DemoEventDispatch ==
    /\ demo.events # <<>>
    /\ LET w == [World EXCEPT !.demo.events = Tail(@)]
       IN IF Head(demo.events) = "play"
          THEN LET w1 == OnDemoAudioPlay(w)
               IN CommitNote(w1, obs.lastReq,
                             IF ~am.paused /\ w1.am.paused
                             THEN "handover" ELSE "none", 0)
          ELSE Commit(w, obs.lastReq)

\* The demo clip reaches its end: 'pause' and 'ended' in one task.
DemoEnded ==
    /\ DemoIsPlaying(World)
    /\ demo.pos >= DemoDurationSec
    /\ demo.events = <<>>
    /\ Commit(OnDemoAudioEnded([World EXCEPT !.demo.paused = TRUE]), "none")

\* The 500 ms timeout of onDemoAudioEnded and checkDemoVisibility.
RestoreTimerFire ==
    /\ win.restoreTimers > 0
    /\ \E allowed \in BOOLEAN :
          Commit(AmPlay([World EXCEPT !.win.restoreTimers = @ - 1], allowed),
                 obs.lastReq)

\* A scroll event of the window reaches the listener of setupScrollSync.
ScrollSyncEvent ==
    /\ \E scrollTop \in 0..DocumentHeight :
           CommitNote(ScrollSyncListener(World, scrollTop), obs.lastReq,
                      "scroll", scrollTop)

\* A scroll event of the window reaches handleScroll of setupScrollDetection.
DemoScrollEvent ==
    /\ Commit([World EXCEPT !.demo.ticking = TRUE], obs.lastReq)

\* The 100 ms timeout of the scroll listener.
DebounceTimerFire ==
    /\ win.debounceTimers > 0
    /\ Commit([World EXCEPT !.win.debounceTimers = @ - 1,
                            !.am.isScrolling = FALSE],
              obs.lastReq)

\* The animation frame requested by handleScroll; isVisible is what the
\* bounding rectangle of #demo says when the frame runs.
VisibilityFrame ==
    /\ demo.ticking
    /\ \E isVisible \in BOOLEAN :
          LET w == CheckDemoVisibility([World EXCEPT !.demo.ticking = FALSE],
                                       isVisible)
          IN CommitNote(w, IF w.win.restoreTimers > win.restoreTimers
                           THEN "none" ELSE obs.lastReq,
                        IF DemoIsPlaying(World) THEN "frame" ELSE "none",
                        IF DemoIsPlaying(World) /\ isVisible THEN 1 ELSE 0)

DisableScrollSync ==
    /\ Commit([World EXCEPT !.am.scrollSyncEnabled = FALSE], obs.lastReq)

EnableScrollSync ==
    /\ Commit([World EXCEPT !.am.scrollSyncEnabled = TRUE], obs.lastReq)

\* seekTo called from the progress bar or by page code.
SeekInputs == {-TickMs, 0, TickMs \div 2, DurationMs, DurationMs + TickMs}

CallSeekTo ==
    /\ \E t \in SeekInputs :
           CommitNote(SeekTo(World, t), obs.lastReq, "seek", t)

\* setVolume called by page code.
VolumeInputs == {-50, 0, 40, 100, 150}

CallSetVolume ==
    /\ \E volume \in VolumeInputs :
           CommitNote(SetVolume(World, volume), obs.lastReq, "volume", volume)

\* A click on #volume-btn.
ClickVolume ==
    /\ CommitNote(ToggleMute(World), obs.lastReq, "mute", am.gain)

\* The callback of requestAnimationFrame in startAnimation.
FrameTick ==
    /\ gfx.running
    /\ CommitNote(Animate(World), obs.lastReq, "frametick", 0)

\* Something makes a step of a scene throw from now on: an object without
\* the userData or uniforms the animate* methods read, a lost WebGL context.
SceneBreaks ==
    /\ Cardinality(gfx.faulty) < MaxFaults
    /\ \E op \in {"update", "render"}, s \in Scenes :
          /\ <<op, s>> \notin gfx.faulty
          /\ Commit([World EXCEPT !.gfx.faulty = @ \cup {<<op, s>>}], obs.lastReq)

\* ThreeSceneManager.destroy called by page code.
CallDestroyScenes ==
    /\ gfx.disposals < MaxTeardowns
    /\ CommitNote(DestroyScenes(World), obs.lastReq, "destroy", 0)

\* ElevenLabsDemo.destroy called by page code.
CallDemoDestroy ==
    /\ demo.revokes < MaxTeardowns
    /\ CommitNote(DemoDestroy(World), obs.lastReq, "demodestroy", 0)

\* The portal is opened by page code calling openRealm.
OpenRealm ==
    /\ realm.sessions < MaxSessions
    /\ CommitNote(OpenRealmBody([World EXCEPT !.realm.callback = "none"]),
                  obs.lastReq, "open", IF realm.isActive THEN 1 ELSE 0)

\* A click on #quantum-close or on the backdrop, or the Escape key.
CloseRealm ==
    /\ CommitNote(CloseRealmBody([World EXCEPT !.realm.callback = "none"]),
                  obs.lastReq, "close", 0)

\* The requestAnimationFrame callback of QuantumRealm.animate.
RealmFrame ==
    /\ realm.pending > 0
    /\ Commit(RealmAnimate([World EXCEPT !.realm.callback = "none",
                                         !.realm.pending = @ - 1]),
              obs.lastReq)

\* A click on a .quantum-control button of the open modal.
RealmAction ==
    /\ realm.isActive
    /\ \E action \in {"particles", "reset"} :
          LET w == [World EXCEPT !.realm.callback = "none"]
          IN Commit(IF action = "particles" THEN SpawnParticles(w)
                    ELSE ResetField(w), obs.lastReq)

\* A click on the 'save' control of the open modal.
ClickSave ==
    /\ realm.isActive
    /\ realm.saves < MaxSaves
    /\ CommitNote(SaveSignature([World EXCEPT !.realm.callback = "none"]),
                  obs.lastReq, "save", 0)

\* A timeout set by createQuantumField (500 ms) or resetField (100 ms) fires.
RealmTimerFire ==
    /\ \E i \in 1..Len(realm.timers) :
          LET timer == realm.timers[i]
              w == [World EXCEPT !.realm.timers = RemoveAt(@, i),
                                 !.realm.callback = "ran"]
          IN CommitNote(IF timer[1] = "spawnParticles" THEN SpawnParticles(w)
                        ELSE CreateQuantumField(w),
                        obs.lastReq, "realmtimer", timer[2])

\* new PerformanceOptimizer() on a desktop, a mobile or a low-end mobile
\* device.
OptimizerInit ==
    /\ perf.device = "none"
    /\ \E device \in {"desktop", "mobile", "lowEnd"} :
          CommitNote(OptimizerInitBody(World, device), obs.lastReq, "perfinit", 0)

FpsInputs == {20, 40, 60}

\* A second of frames has been counted by measureFPS.
FpsSample ==
    /\ perf.device # "none"
    /\ \E fps \in FpsInputs :
          CommitNote(MeasureFPS(World, fps), obs.lastReq, "fps", fps)

\* The same for performanceMonitor of main.js.
MonitorUpdate ==
    /\ \E fps \in FpsInputs :
          Commit(PerformanceMonitorUpdate(World, fps), obs.lastReq)

\* The user turns the reduced-motion preference of the system on or off.
MotionPreferenceChange ==
    /\ \E matches \in BOOLEAN \ {perf.isReducedMotion} :
          Commit(MotionPreferenceListener(World, matches), obs.lastReq)

\* The 5 s memory check of setupPerformanceMonitoring finds the heap more
\* than 80 % full.
MemoryPressure ==
    /\ Commit(OptimizePerformance(World), obs.lastReq)

BatteryInputs == {10, 20, 30, 50}

\* The battery promise of startMobilePerformanceMonitoring resolves, or the
\* battery reports a change of level or of charging.
BatteryChange ==
    /\ perf.device \in {"mobile", "lowEnd"}
    /\ \E level \in BatteryInputs, charging \in BOOLEAN :
          CommitFlag(CheckBattery(World, level, charging), obs.lastReq,
                     "battery", level, charging)

\* matrixEffect.startEffect() called by page code.
StartEffect ==
    /\ ~matrix.isActive
    /\ Commit(StartEffectBody(World), obs.lastReq)

\* The 5 s timeout of startEffect.  The 3 s timeout of an earlier run and its
\* 2 s scroll are over by then.
ScrollTimerFire ==
    /\ "scroll" \in matrix.timers
    /\ "enable" \notin matrix.timers
    /\ ~matrix.scrolling
    /\ Commit(ScrollToNeuralNetwork([World EXCEPT !.matrix.timers = @ \ {"scroll"}]),
              obs.lastReq)

\* The 7 s timeout of startEffect.
StopTimerFire ==
    /\ "stop" \in matrix.timers
    /\ "scroll" \notin matrix.timers
    /\ Commit(StopEffect([World EXCEPT !.matrix.timers = @ \ {"stop"}]),
              obs.lastReq)

\* onComplete of the scroll tween.
ScrollComplete ==
    /\ matrix.scrolling
    /\ \E allowed \in BOOLEAN :
          CommitNote(SyncAudioToMCP([World EXCEPT !.matrix.scrolling = FALSE],
                                    allowed),
                     IF NoMetadata(World) \/ am.isPlaying THEN obs.lastReq
                     ELSE "narration",
                     "mcpsync", 0)

\* The 3 s timeout of syncAudioToMCP.
EnableTimerFire ==
    /\ "enable" \in matrix.timers
    /\ Commit([World EXCEPT !.matrix.timers = @ \ {"enable"},
                            !.am.scrollSyncEnabled = TRUE],
              obs.lastReq)

\* TickSec seconds of playback.  Queued events and the 100 ms and 500 ms
\* timeouts are over long before that much time has passed.
Tick ==
    /\ am.events = <<>>
    /\ demo.events = <<>>
    /\ am.waiters = {}
    /\ win.retryTimers = 0
    /\ win.restoreTimers = 0
    /\ win.debounceTimers = 0
    /\ LET narr == ~am.paused /\ am.pos < am.duration
           dem == DemoIsPlaying(World) /\ demo.pos < DemoDurationSec
           npos == Min(am.pos + TickMs, am.duration)
       IN /\ narr \/ dem
          /\ LET w == [World EXCEPT
                          !.am.pos = IF narr THEN npos ELSE @,
                          !.demo.pos = IF dem THEN Min(@ + TickSec, DemoDurationSec)
                                       ELSE @]
             IN Commit(IF narr THEN OnTimeUpdate(w) ELSE w, obs.lastReq)

Next ==
    \/ ClickPlayPause
    \/ CallPlay
    \/ CallPause
    \/ CallStop
    \/ NarrEventDispatch
    \/ NarrPlayResolved
    \/ NarrEnded
    \/ OrphanEnded
    \/ RetryTimerFire
    \/ SwitchLanguage
    \/ LoadedMetadata
    \/ DisplayResult
    \/ DemoTogglePlayback
    \/ DemoEventDispatch
    \/ DemoEnded
    \/ RestoreTimerFire
    \/ DemoScrollEvent
    \/ VisibilityFrame
    \/ Tick

Spec == Init /\ [][Next]_vars

\* The narration player alone, with its scroll synchronisation.
NextScroll ==
    \/ ClickPlayPause
    \/ CallPlay
    \/ CallPause
    \/ CallStop
    \/ NarrEventDispatch
    \/ NarrPlayResolved
    \/ NarrEnded
    \/ OrphanEnded
    \/ RetryTimerFire
    \/ SwitchLanguage
    \/ LoadedMetadata
    \/ ScrollSyncEvent
    \/ DebounceTimerFire
    \/ DisableScrollSync
    \/ EnableScrollSync
    \/ CallSeekTo
    \/ Tick

SpecScroll == Init /\ [][NextScroll]_vars

\* The narration player alone, with its volume control.
NextVolume ==
    \/ ClickPlayPause
    \/ CallPause
    \/ CallStop
    \/ NarrEventDispatch
    \/ NarrPlayResolved
    \/ NarrEnded
    \/ CallSetVolume
    \/ ClickVolume
    \/ Tick

SpecVolume == Init /\ [][NextVolume]_vars

\* The loads of both players.  Timeouts that have been set do fire.
NextLoad ==
    \/ ClickPlayPause
    \/ CallPause
    \/ NarrEventDispatch
    \/ NarrPlayResolved
    \/ NarrEnded
    \/ OrphanEnded
    \/ RetryTimerFire
    \/ ClickLanguage
    \/ LoadedMetadata
    \/ LoadError
    \/ ClickGenerate
    \/ GenerationDone
    \/ DemoCanPlay
    \/ DemoLoadError
    \/ DemoLoadTimeout
    \/ Tick

SpecLoad ==
    /\ Init
    /\ [][NextLoad]_vars
    /\ WF_vars(DemoLoadTimeout)
    /\ WF_vars(RetryTimerFire)

\* The frame loop of the scenes next to the narration player and its
\* visualizers.
NextFrame ==
    \/ ClickPlayPause
    \/ CallPause
    \/ CallStop
    \/ NarrEventDispatch
    \/ NarrPlayResolved
    \/ NarrEnded
    \/ FrameTick
    \/ SceneBreaks
    \/ Tick

SpecFrame == Init /\ [][NextFrame]_vars

\* Opening and closing the quantum portal and destroying the scene manager.
NextTeardown ==
    \/ FrameTick
    \/ CallDestroyScenes
    \/ OpenRealm
    \/ CloseRealm
    \/ RealmFrame
    \/ RealmAction
    \/ RealmTimerFire

SpecTeardown == Init /\ [][NextTeardown]_vars

\* The teardown operations of the three components and what creates the
\* resources they release.
NextRelease ==
    \/ FrameTick
    \/ CallDestroyScenes
    \/ OpenRealm
    \/ CloseRealm
    \/ RealmFrame
    \/ ClickGenerate
    \/ GenerationDone
    \/ DemoCanPlay
    \/ DemoLoadTimeout
    \/ CallDemoDestroy

SpecRelease == Init /\ [][NextRelease]_vars

\* The adaptation of the workload to the measured performance.
NextPerf ==
    \/ OptimizerInit
    \/ FpsSample
    \/ MonitorUpdate
    \/ MemoryPressure
    \/ BatteryChange

SpecPerf == Init /\ [][NextPerf]_vars

\* The page's own monitor of main.js with the motion preference, on a
\* device PerformanceOptimizer has classified.
NextMotion ==
    \/ OptimizerInit
    \/ MonitorUpdate
    \/ MemoryPressure
    \/ MotionPreferenceChange

SpecMotion == Init /\ [][NextMotion]_vars

\* Speech generation alone.  The fetch of the clip settles, and the 5 s
\* timeout of displayResult fires if nothing else ends the wait.
NextGenerate ==
    \/ ClickGenerate
    \/ GenerationDone
    \/ GenerationFailed
    \/ DemoCanPlay
    \/ DemoLoadError
    \/ DemoLoadTimeout
    \/ DemoTogglePlayback
    \/ DemoEventDispatch

SpecGenerate ==
    /\ Init
    /\ [][NextGenerate]_vars
    /\ WF_vars(GenerationDone \/ GenerationFailed)
    /\ WF_vars(DemoLoadTimeout)

\* The Matrix intro next to the narration player.  Every timeout that was set
\* fires, a scroll tween that was started completes, and a load that was
\* started ends with 'loadedmetadata' or with 'error'.
NextMatrix ==
    \/ StartEffect
    \/ ScrollTimerFire
    \/ StopTimerFire
    \/ ScrollComplete
    \/ EnableTimerFire
    \/ NarrEventDispatch
    \/ NarrPlayResolved
    \/ RetryTimerFire
    \/ ClickLanguage
    \/ LoadedMetadata
    \/ LoadError

SpecMatrix ==
    /\ Init
    /\ [][NextMatrix]_vars
    /\ WF_vars(ScrollTimerFire)
    /\ WF_vars(StopTimerFire)
    /\ WF_vars(ScrollComplete)
    /\ WF_vars(EnableTimerFire)
    /\ WF_vars(LoadedMetadata \/ LoadError)

\* The controls of the open portal, with the signature store.
NextSignature ==
    \/ OpenRealm
    \/ CloseRealm
    \/ RealmAction
    \/ RealmTimerFire
    \/ ClickSave

SpecSignature == Init /\ [][NextSignature]_vars

\* ------------------------------------------------------------- properties
NarrPlaying == ~am.paused
DemoPlaying == demo.hasAudio /\ ~demo.paused

\* C1: the narration element and the demo element are never both playing.
C1_MutualExclusion == ~(NarrPlaying /\ DemoPlaying)

\* C2: a source never becomes Playing in a step after which the other source
\* is still Playing: the other one has been paused first.
C2_HandoffOrdering ==
    [][ /\ (~DemoPlaying /\ DemoPlaying' => ~NarrPlaying')
        /\ (~NarrPlaying /\ NarrPlaying' => ~DemoPlaying') ]_vars

\* C3: a step in which the demo's handlers pause the running narration
\* leaves the narration's position where it was, and a later resume through
\* togglePlayback of a narration paused before its end starts from that
\* position.
C3_PausePreservesPosition ==
    [][ /\ (obs'.kind = "handover" => am'.paused /\ am'.pos = am.pos)
        /\ ((ClickPlayPause \/ RestoreTimerFire)
               /\ am.paused /\ ~am'.paused /\ am.pos < am.duration
            => am'.pos = am.pos) ]_vars

C3_Witness ==
    /\ obs.kind = "handover"
    /\ am.paused
    /\ am.pos > 0
    /\ am.pos < am.duration
    /\ DemoPlaying

\* C4: while the last playback request stands and its source has become the
\* only one Playing, no step stops that source or starts the other one.
C4_LastRequesterWins ==
    [][ obs'.lastReq = obs.lastReq =>
          /\ (obs.lastReq = "demo" /\ DemoPlaying /\ ~NarrPlaying
                 => DemoPlaying' /\ ~NarrPlaying')
          /\ (obs.lastReq = "narration" /\ NarrPlaying /\ ~DemoPlaying
                 => NarrPlaying' /\ ~DemoPlaying') ]_vars

\* C5: the end of the demo does not start the narration itself but schedules
\* the 500 ms timer, and when that timer fires and the platform does not
\* refuse playback the narration is Playing afterwards, whatever state the
\* timer found it in.
C5_FallbackAfterDemoEnd ==
    [][ /\ (DemoEnded => /\ am'.paused = am.paused
                         /\ win'.restoreTimers = win.restoreTimers + 1)
        /\ (RestoreTimerFire /\ win'.retryTimers = win.retryTimers
               => NarrPlaying') ]_vars

C7_FeedbackSuppression ==
    [][ /\ (obs'.kind = "scroll" /\ (win.debounceTimers > 0 \/ am.isPlaying)
               => obs'.seeks = <<>> /\ am'.pos = am.pos)
        /\ (Tick => obs'.seeks = <<>>) ]_vars

C7_Witness ==
    /\ obs.kind = "scroll"
    /\ obs.n > 0
    /\ obs.seeks = <<>>
    /\ win.debounceTimers > 0
    /\ am.scrollSyncEnabled
    /\ ~am.isPlaying

\* C8: a scroll event that arrives while scroll sync is disabled issues no
\* seek and leaves the narration's position alone.
C8_NoSeekWhileDisabled ==
    [][ obs'.kind = "scroll" /\ ~am.scrollSyncEnabled
           => obs'.seeks = <<>> /\ am'.pos = am.pos ]_vars

C8_Witness ==
    /\ obs.kind = "scroll"
    /\ obs.n > 0
    /\ obs.seeks = <<>>
    /\ ~am.scrollSyncEnabled
    /\ ~am.isPlaying
    /\ ~am.isScrolling
    /\ win.debounceTimers = 0

\* The seek a scroll to scrollTop = obs'.n of DocumentHeight must issue:
\* exactly one, to the whole milliseconds of that fraction of the duration,
\* and the element is at that position afterwards.
OneSeekToScrollFraction ==
    /\ Len(obs'.seeks) = 1
    /\ obs'.seeks[1] * DocumentHeight <= obs'.n * am.duration
    /\ obs'.n * am.duration < (obs'.seeks[1] + 1) * DocumentHeight
    /\ am'.pos = obs'.seeks[1]

C11_VolumeClamp ==
    obs.kind = "volume" =>
        /\ am.volume >= 0
        /\ am.volume <= 100
        /\ am.gain = am.volume
        /\ (obs.n >= 0 /\ obs.n <= 100 => am.volume = obs.n)
        /\ (obs.n < 0 => am.volume = 0)
        /\ (obs.n > 100 => am.volume = 100)

C11_Witness ==
    /\ obs.kind = "volume"
    /\ obs.n > 100
    /\ am.volume = 100
    /\ am.gain = 100

\* C12: a call of play() that the platform does not refuse leaves the
\* narration Playing, whether it was Playing or Paused before.
C12_PlayStartsPlayback ==
    [][ CallPlay /\ win'.retryTimers = win.retryTimers => NarrPlaying' ]_vars

\* C13: a rejected play() of togglePlayback schedules one retry; the retry
\* calls resumeAudioContext() and then play(), once each, and schedules
\* nothing, also when its play() is rejected in turn.
C13_RetryOnce ==
    [][ /\ (win'.retryTimers > win.retryTimers
               => win'.retryTimers = win.retryTimers + 1)
        /\ (RetryTimerFire
               => /\ win'.retryTimers = win.retryTimers - 1
                  /\ obs'.calls = <<"resume", "play">>) ]_vars

C13_Witness ==
    /\ obs.kind = "retry"
    /\ obs.calls = <<"resume", "play">>
    /\ win.retryTimers = 0
    /\ am.paused

\* C14: no step of a timer calls play() on the narration to retry a rejected
\* play(): the firing retry timer makes no play() call.
C14_NoRetryFromTimer ==
    [][ RetryTimerFire
           => \A i \in 1..Len(obs'.calls) : obs'.calls[i] # "play" ]_vars

\* C15: a load that has started comes to an end, the narration's and the
\* demo's, and a demo load that ended by its timeout is not marked ready.
C15_BoundedLoad ==
    /\ (am.loading # <<>>) ~> (am.loading = <<>>)
    /\ (demo.load = "waiting") ~> (demo.load # "waiting")
    /\ [](demo.load = "timeout" => ~demo.isDemoReady)

\* C16: when the load started by the language button fails, the language,
\* the element, its playing state and, if it was paused, its position are
\* what they were before the click.
C16_FailedLoadLeavesState ==
    [][ obs'.kind = "loadfail" /\ obs.before # <<>> =>
          /\ am'.language = obs.before[1].language
          /\ am'.listeners = obs.before[1].listeners
          /\ am'.paused = obs.before[1].paused
          /\ ~am'.broken
          /\ (obs.before[1].paused => am'.pos = obs.before[1].pos) ]_vars

Ran(log) == {log[i] : i \in 1..Len(log)}

FaultingScenes == {f[2] : f \in gfx.faulty}

\* C17: when a scene's update or render throws in a tick of the frame loop,
\* every other scene is still updated and rendered in that tick, the loop
\* keeps running, and the faulting scene is no longer among the scenes that
\* are ticked.
C17_SceneFaultIsolation ==
    [][ FrameTick /\ gfx.faulty # {} =>
          /\ \A s \in Scenes \ FaultingScenes :
                {<<"update", s>>, <<"render", s>>} \subseteq Ran(gfx'.log)
          /\ gfx'.running
          /\ gfx'.scenes \cap FaultingScenes = {} ]_vars

\* C18: a tick of the frame loop produces the frequency frame first, then
\* updates every scene, and only then renders.
C18_TickOrdering ==
    [][ FrameTick =>
          /\ gfx'.log # <<>>
          /\ gfx'.log[1][1] = "frame"
          /\ \A i, j \in 1..Len(gfx'.log) :
                gfx'.log[i][1] = "update" /\ gfx'.log[j][1] = "render" => i < j ]_vars

\* C19: the waveform visualizer, the spectrum analyzer and the 3D audio scene
\* always hold the frequency frame of the same analysis tick: none of them
\* shows an older or a newer frame than another.
C19_FrameCoherence ==
    /\ gfx.waveform = gfx.spectrum
    /\ gfx.audioScene = gfx.waveform

\* C20: a tick of the frame loop in which neither player is playing still
\* delivers an idle frame, so the visualizers show the idle frame after it.
C20_IdleFrames ==
    [][ FrameTick /\ ~NarrPlaying /\ ~DemoPlaying =>
          /\ gfx'.waveform = <<"idle">>
          /\ gfx'.spectrum = <<"idle">> ]_vars

Before(log, a, b) ==
    \A i, j \in 1..Len(log) : log[i] = a /\ log[j] = b => i < j

\* C21: a teardown cancels the frame loop before it disposes anything, and
\* no update or render step of a loop runs once the renderers, geometries and
\* materials of its scenes have been disposed.
C21_TeardownOrder ==
    [][ /\ (FrameTick => gfx.disposals = 0)
        /\ (RealmFrame /\ realm'.frame # <<>> => realm.renderer /\ realm.scene # 0)
        /\ (obs'.kind = "destroy" =>
              /\ gfx'.teardown # <<>>
              /\ gfx'.teardown[1] = "cancel"
              /\ ~gfx'.running)
        /\ (obs'.kind = "close" =>
              /\ Before(realm'.teardown, "cancel", "objects")
              /\ Before(realm'.teardown, "cancel", "renderer")
              /\ ~realm'.loop) ]_vars

C21_Witness ==
    /\ gfx.teardown = <<"cancel", "renderers", "objects">>
    /\ ~gfx.running
    /\ gfx.log # <<>>
    /\ realm.teardown = <<"cancel", "objects", "renderer">>
    /\ realm.frame # <<>>
    /\ ~realm.loop

\* C22: a teardown operation called again releases nothing a second time: no
\* renderer, geometry or material is disposed twice, no blob URL is revoked
\* twice, and closing a closed portal releases nothing.
C22_IdempotentTeardown ==
    [][ /\ (obs'.kind = "destroy" => gfx'.disposals <= 1)
        /\ (obs'.kind = "demodestroy" => demo'.revokes <= 1)
        /\ (obs'.kind = "close" /\ ~realm.isActive => realm'.teardown = <<>>) ]_vars

\* C23: every object URL created by displayResult gets revoked: the URL that
\* a new generation replaces has been revoked when the reference to it is
\* dropped, and destroy revokes the current one.
C23_EveryUrlRevoked ==
    [][ /\ (GenerationDone /\ demo.hasAudio => demo.revokes > 0)
        /\ (obs'.kind = "demodestroy" /\ demo.hasAudio => demo'.revokes > 0) ]_vars

\* C24: a timeout set while the portal was open does nothing once closeRealm
\* has released the scene (it neither dereferences the null scene nor adds
\* objects), and it never adds objects to the scene of a later session.
C24_NoStaleCallback ==
    [][ obs'.kind = "realmtimer" =>
          /\ realm'.callback # "threw"
          /\ (realm.scene = 0 =>
                realm'.fields = realm.fields /\ realm'.particles = realm.particles)
          /\ (realm.scene # obs'.n =>
                realm'.fields = realm.fields /\ realm'.particles = realm.particles) ]_vars

\* The change of the ticker rate over the last n samples.
TickerChange(n) ==
    LET h == Last(perf.hist, n)
        Sum[i \in 0..Len(h)] == IF i = 0 THEN 0 ELSE Sum[i - 1] + h[i][2]
    IN Sum[Len(h)]

\* C25: two seconds of one steady FPS below the low threshold lower the
\* quality by exactly one step, never by two.
C25_OneStepDown ==
    obs.kind = "fps" /\ Len(perf.hist) >= 2
        /\ perf.hist[Len(perf.hist)][1] < LowFpsThreshold
        /\ perf.hist[Len(perf.hist) - 1][1] = perf.hist[Len(perf.hist)][1]
        /\ perf.tickerFps > TickerFloor
    => TickerChange(2) = -TickerStep

\* The quality turned round at sample i of the history: the ticker rate
\* moved at sample i - 1 and moved the other way at sample i.
Reversal(i) == perf.hist[i - 1][2] * perf.hist[i][2] < 0

\* C26: when the FPS samples alternate between below the low and above the
\* high threshold, the quality does not turn round twice within less than
\* the two seconds a change of quality has to be sustained for: it does not
\* turn round at two samples in a row.
C26_Hysteresis ==
    obs.kind = "fps" /\ Len(perf.hist) = 3 => ~(Reversal(2) /\ Reversal(3))

\* C27: on a mobile device the ticker rate never exceeds the cap that the
\* startup optimizations set from the device signals.
C27_DeviceClamp ==
    perf.device \in {"mobile", "lowEnd"} => perf.tickerFps <= perf.startFps

\* C28: once the FPS has stayed above the high threshold until the ticker
\* rate is back at its ceiling, every reduction of the workload is undone:
\* the pixel ratio, the hero particles, the 'performance-mode' class and the
\* animation time scale are what they were before the degradation.
C28_ReversibleAdaptation ==
    obs.kind = "fps" /\ obs.n > HighFpsThreshold /\ perf.tickerFps = TickerCeiling
        /\ perf.monitorFps > HighFpsThreshold
    => /\ perf.pixelRatio = 100
       /\ perf.particles = HeroParticles
       /\ ~perf.performanceMode
       /\ perf.timeScale = 100

\* C29: when the scroll of the Matrix intro is over and the narration is
\* loaded, syncAudioToMCP leaves it at the start of the 'mcp' chapter, 40 s
\* into the narration (its end when it is shorter), and starts it when it was
\* not playing.
C29_SyncToMcpChapter ==
    [][ obs'.kind = "mcpsync" /\ ~NoMetadata(World) =>
          /\ am'.pos = Min(McpStartSec * 1000, am.duration)
          /\ (~am.isPlaying =>
                ~am'.paused \/ win'.retryTimers > win.retryTimers) ]_vars

\* C30: scroll sync that the Matrix intro disabled is enabled again in the
\* end, and it is disabled for as long as the programmatic scroll runs.
C30_ScrollSyncRestored ==
    /\ (~am.scrollSyncEnabled) ~> am.scrollSyncEnabled
    /\ [](matrix.scrolling => ~am.scrollSyncEnabled)

\* C31: the signature store holds at most ten entries, and they are the
\* most recently saved ones in the order they were saved.
C31_LastTenSignatures ==
    LET saved == realm.savedSignatures
    IN /\ Len(saved) = Min(realm.saves, KeptSignatures)
       /\ \A i \in 1..Len(saved) : saved[i] = realm.saves - Len(saved) + i

C31_Witness ==
    /\ realm.saves > KeptSignatures
    /\ Len(realm.savedSignatures) = KeptSignatures
    /\ realm.savedSignatures[1] = realm.saves - KeptSignatures + 1
    /\ realm.savedSignatures[KeptSignatures] = realm.saves

\* C32: a battery event enables low-power mode when the level is below 20 %
\* and the battery is not charging, disables it when the level is above 30 %
\* or the battery is charging, and leaves the mode and the ticker frame rate
\* as they were for a discharging battery between 20 % and 30 %.
C32_BatteryBand ==
    [][BatteryChange =>
         LET level == obs'.n
             charging == obs'.flag
         IN /\ (level < LowBatteryPct /\ ~charging => perf'.lowPower)
            /\ (level > GoodBatteryPct \/ charging => ~perf'.lowPower)
            /\ (level >= LowBatteryPct /\ level <= GoodBatteryPct /\ ~charging
                  => /\ perf'.lowPower = perf.lowPower
                     /\ perf'.tickerFps = perf.tickerFps)]_vars

C32_Witness ==
    /\ obs.kind = "battery"
    /\ obs.n = GoodBatteryPct
    /\ ~obs.flag
    /\ perf.lowPower
    /\ perf.tickerFps = LowPowerTickerFps

\* C33: once the element's queued events have been handled and no play()
\* call or load is pending, isPlaying is true exactly when the element held
\* in audioElement is playing.
C33_IsPlayingAgrees ==
    (am.events = <<>> /\ am.waiters = {} /\ am.loading = <<>>)
        => (am.isPlaying <=> NarrPlaying)

\* C34: when the load started by the language button succeeds, nothing has
\* touched the new element while it loaded and no play() is rejected, the
\* narration is at the position it had before the click and is playing
\* exactly if it was playing before the click.
C34_SwitchPreservesPlayback ==
    [][ LoadedMetadata /\ obs.before # <<>> /\ am.paused /\ am.pos = 0
          /\ ~obs'.flag =>
          /\ am'.pos = obs.before[1].pos
          /\ am'.paused = obs.before[1].paused ]_vars

\* C35: the reduceBrowserLoad of a slow second never raises the ticker frame
\* rate, and the increaseBrowserLoad of a fast second never lowers it and
\* leaves it at 60 fps or less, whatever the rate was, the 15 fps of
\* low-power mode included.
C35_MonotoneAdjustment ==
    [][ FpsSample =>
          /\ (obs'.n < LowFpsThreshold => perf'.tickerFps <= perf.tickerFps)
          /\ (obs'.n > HighFpsThreshold
                => /\ perf'.tickerFps >= perf.tickerFps
                   /\ perf'.tickerFps <= TickerCeiling) ]_vars

\* C36: while the user's reduced-motion preference is on, the body has the
\* 'reduced-motion' class.
C36_PreferenceKeepsClass == perf.isReducedMotion => perf.reducedMotion

\* C37: at most one animation frame callback of the portal is pending, none
\* is pending while the portal is inactive, and an openRealm that finds the
\* portal active starts nothing: no scene, no field, no timer, no frame.
C37_SingleLoop ==
    /\ [](realm.pending <= 1 /\ (~realm.isActive => realm.pending = 0))
    /\ [][ OpenRealm /\ realm.isActive =>
             /\ realm'.pending = realm.pending
             /\ realm'.sessions = realm.sessions
             /\ realm'.scene = realm.scene
             /\ realm'.fields = realm.fields
             /\ realm'.timers = realm.timers ]_vars

C37_Witness ==
    /\ obs.kind = "open"
    /\ obs.n = 1
    /\ realm.isActive
    /\ realm.pending = 1
    /\ realm.sessions = 1

\* C38: at most one generation is in flight; a generateSpeech call made
\* while one is in progress starts nothing; every generation that was
\* started ends, and when none is in flight isGenerating is false and the
\* button is enabled; an empty text and one of more than 500 characters
\* start nothing.
C38_SingleFlight ==
    /\ [](/\ demo.inFlight <= 1
          /\ (demo.inFlight = 0 => ~demo.isGenerating /\ ~demo.buttonDisabled))
    /\ [][ ClickGenerate /\ demo.isGenerating =>
             /\ demo' = demo
             /\ win' = win ]_vars
    /\ [][ ClickGenerate /\ (obs'.n = 0 \/ obs'.n > MaxTextLength) =>
             /\ demo'.isGenerating = demo.isGenerating
             /\ demo'.inFlight = demo.inFlight ]_vars
    /\ (demo.isGenerating ~> ~demo.isGenerating)

C38_Witness ==
    /\ obs.kind = "generate"
    /\ obs.n = MaxTextLength
    /\ demo.isGenerating
    /\ demo.inFlight = 1
    /\ demo.load = "waiting"

\* C39: a click on the volume button of an unmuted player with volume v > 0
\* sets the gain to 0, and a click on the button of a muted player sets the
\* gain to the configured volume and unmutes, also when setVolume was called
\* in between.
C39_MuteRoundTrip ==
    [][ ClickVolume =>
          /\ (~am.muteIcon /\ am.volume > 0 /\ am.gain = am.volume
                => am'.gain = 0 /\ am'.muteIcon)
          /\ (am.muteIcon => am'.gain = am.volume /\ ~am'.muteIcon) ]_vars

====
